---- MODULE Spec2Model ----
(***************************************************************************)
(* Quote generator (dom-manipulation/script.js and its earlier iteration   *)
(* with category filtering): the in-memory quote list, its persistence in  *)
(* localStorage, JSON import, category filtering and the periodic server   *)
(* sync with its merge.                                                     *)
(*                                                                         *)
(* Strings are sequences of units: a unit is either one whitespace         *)
(* character or a run of text that neither starts nor ends in whitespace.  *)
(* JSON text is a sequence of tokens.  A JavaScript value is a record      *)
(* [k, s, p]: its kind, its string content and its property list in        *)
(* insertion order.                                                        *)
(***************************************************************************)
EXTENDS Integers, Sequences, FiniteSets, TLC

\* ---------------------------------------------------------------- bounds
\* the longest collection, and the most asynchronous operations (sync cycles,
\* timers of addQuote, POST requests) outstanding at once
MaxQuotes == 5
MaxBusy == 2

\* ---------------------------------------------------------------- strings
S(x) == <<x>>

IsSpace(u) == u \in {" ", "\t"}

RECURSIVE TrimStart(_)
TrimStart(s) ==
    IF s = <<>> THEN s
    ELSE IF IsSpace(Head(s)) THEN TrimStart(Tail(s)) ELSE s

RECURSIVE TrimEnd(_)
TrimEnd(s) ==
    IF s = <<>> THEN s
    ELSE IF IsSpace(s[Len(s)]) THEN TrimEnd(SubSeq(s, 1, Len(s) - 1)) ELSE s

\* String.prototype.trim
Trim(s) == TrimEnd(TrimStart(s))

\* ---------------------------------------------------------------- values
Str(s) == [k |-> "str", s |-> s, p |-> <<>>]
Num(s) == [k |-> "num", s |-> s, p |-> <<>>]
Null == [k |-> "null", s |-> <<>>, p |-> <<>>]
Undefined == [k |-> "undef", s |-> <<>>, p |-> <<>>]
Obj(p) == [k |-> "obj", s |-> <<>>, p |-> p]
Prop(key, val) == [key |-> key, val |-> val]

\* reading a property of null or undefined throws a TypeError
AccessThrows(v) == v.k \in {"null", "undef"}

RECURSIVE Lookup(_, _)
Lookup(p, key) ==
    IF p = <<>> THEN Undefined
    ELSE IF Head(p).key = key THEN Head(p).val ELSE Lookup(Tail(p), key)

\* v.key for a value whose properties can be read
GetProp(v, key) == IF v.k = "obj" THEN Lookup(v.p, key) ELSE Undefined

RECURSIVE SetProp(_, _, _)
SetProp(p, key, val) ==
    IF p = <<>> THEN <<Prop(key, val)>>
    ELSE IF Head(p).key = key THEN <<Prop(key, val)>> \o Tail(p)
    ELSE <<Head(p)>> \o SetProp(Tail(p), key, val)

Range(q) == {q[i] : i \in 1..Len(q)}

\* ---------------------------------------------------------------- JSON
Tok(t) == [t |-> t, s |-> <<>>]
StrTok(s) == [t |-> "str", s |-> s]
NumTok(s) == [t |-> "num", s |-> s]

ScalarTokens(v) ==
    CASE v.k = "str" -> <<StrTok(v.s)>>
      [] v.k = "num" -> <<NumTok(v.s)>>
      [] OTHER -> <<Tok("null")>>

\* the members of an object; a member whose value is undefined is left out
RECURSIVE MemberTokens(_, _)
MemberTokens(p, first) ==
    IF p = <<>> THEN <<>>
    ELSE IF Head(p).val.k = "undef" THEN MemberTokens(Tail(p), first)
    ELSE (IF first THEN <<>> ELSE <<Tok(",")>>)
         \o <<StrTok(Head(p).key), Tok(":")>> \o ScalarTokens(Head(p).val)
         \o MemberTokens(Tail(p), FALSE)

StringifySorted(v) ==
    IF v.k = "obj"
    THEN <<Tok("{")>> \o MemberTokens(<<Prop(S("text"), GetProp(v, S("text"))),
                                        Prop(S("category"), GetProp(v, S("category")))>>, TRUE)
         \o <<Tok("}")>>
    ELSE ScalarTokens(v)

\* JSON.stringify of one value
JSONstringify(v) ==
    IF v.k = "obj"
    THEN <<Tok("{")>> \o MemberTokens(v.p, TRUE) \o <<Tok("}")>>
    ELSE ScalarTokens(v)

RECURSIVE ElementTokens(_, _)
ElementTokens(q, first) ==
    IF q = <<>> THEN <<>>
    ELSE (IF first THEN <<>> ELSE <<Tok(",")>>)
         \o JSONstringify(Head(q)) \o ElementTokens(Tail(q), FALSE)

\* JSON.stringify of an array
JSONstringifyArray(q) == <<Tok("[")>> \o ElementTokens(q, TRUE) \o <<Tok("]")>>

IsScalarTok(tk) == tk.t \in {"str", "num", "null"}

ScalarValue(tk) ==
    CASE tk.t = "str" -> Str(tk.s)
      [] tk.t = "num" -> Num(tk.s)
      [] OTHER -> Null

Fail == [ok |-> FALSE, val |-> Null, next |-> 0]
Done(v, n) == [ok |-> TRUE, val |-> v, next |-> n]

TokAt(toks, i, t) == i <= Len(toks) /\ toks[i].t = t

\* the members of an object from position i on, p the members read so far
RECURSIVE ParseMembers(_, _, _)
ParseMembers(toks, i, p) ==
    IF /\ TokAt(toks, i, "str") /\ TokAt(toks, i + 1, ":")
       /\ i + 2 <= Len(toks) /\ IsScalarTok(toks[i + 2])
    THEN LET q == SetProp(p, toks[i].s, ScalarValue(toks[i + 2]))
         IN  IF TokAt(toks, i + 3, "}") THEN Done(Obj(q), i + 4)
             ELSE IF TokAt(toks, i + 3, ",") THEN ParseMembers(toks, i + 4, q)
             ELSE Fail
    ELSE Fail

\* one value at position i: a scalar, or an object with scalar members
ParseValue(toks, i) ==
    IF i > Len(toks) THEN Fail
    ELSE IF IsScalarTok(toks[i]) THEN Done(ScalarValue(toks[i]), i + 1)
    ELSE IF toks[i].t = "{"
         THEN IF TokAt(toks, i + 1, "}") THEN Done(Obj(<<>>), i + 2)
              ELSE ParseMembers(toks, i + 1, <<>>)
    ELSE Fail

\* the elements of an array from position i on, q the elements read so far
RECURSIVE ParseElements(_, _, _)
ParseElements(toks, i, q) ==
    LET e == ParseValue(toks, i)
    IN  IF ~e.ok THEN [ok |-> FALSE, items |-> <<>>, next |-> 0]
        ELSE IF TokAt(toks, e.next, "]")
             THEN [ok |-> TRUE, items |-> Append(q, e.val), next |-> e.next + 1]
        ELSE IF TokAt(toks, e.next, ",")
             THEN ParseElements(toks, e.next + 1, Append(q, e.val))
        ELSE [ok |-> FALSE, items |-> <<>>, next |-> 0]

SyntaxError == [ok |-> FALSE, isArray |-> FALSE, items |-> <<>>, val |-> Null]

\* JSON.parse: ok is FALSE when it throws a SyntaxError; isArray tells an
\* array (its elements in items) from any other value (in val)
JSONparse(toks) ==
    IF toks = <<>> THEN SyntaxError
    ELSE IF toks[1].t = "["
         THEN IF TokAt(toks, 2, "]")
              THEN IF Len(toks) = 2
                   THEN [ok |-> TRUE, isArray |-> TRUE, items |-> <<>>, val |-> Null]
                   ELSE SyntaxError
              ELSE LET r == ParseElements(toks, 2, <<>>)
                   IN  IF r.ok /\ r.next = Len(toks) + 1
                       THEN [ok |-> TRUE, isArray |-> TRUE, items |-> r.items, val |-> Null]
                       ELSE SyntaxError
    ELSE LET r == ParseValue(toks, 1)
         IN  IF r.ok /\ r.next = Len(toks) + 1
             THEN [ok |-> TRUE, isArray |-> FALSE, items |-> <<>>, val |-> r.val]
             ELSE SyntaxError


\* ---------------------------------------------------------------- program
\* a quote record as the program builds it: text first, then category
Quote(text, category) ==
    Obj(<<Prop(S("text"), Str(text)), Prop(S("category"), Str(category))>>)

Seed ==
    << Quote(S("The only way to do great work is to love what you do."), S("Work")),
       Quote(S("The future belongs to those who believe in the beauty of their dreams."),
             S("Inspiration")),
       Quote(S("It is during our darkest moments that we must focus to see the light."),
             S("Hope")),
       Quote(S("The journey of a thousand miles begins with a single step."), S("Life")) >>

All == S("all")
Server == S("Server")

MsgImported == "Quotes imported successfully!"
MsgNotArray == "Error: The file does not contain a valid JSON array of quotes."
MsgParseError == "Error parsing JSON file. Please ensure the file format is correct."
MsgSynced == "Quotes synced with server!"
MsgSyncError == "Error syncing with server. Please try again later."
MsgPosted == "Quote posted to server!"
MsgPostError == "Error posting quote to server."
MsgPostNetwork == "Network error while posting quote."
MsgAdded == "Quote added successfully!"
MsgValidation == "Please enter both a quote and a category."
NoMessage == ""

\* an item of localStorage: getItem gives null when it is not present
Absent == [present |-> FALSE, text |-> <<>>]
Stored(text) == [present |-> TRUE, text |-> text]

VARIABLES
    iteration,       \* which iteration of the script the page runs
    loaded,          \* window.onload has run loadQuotes and createAddQuoteForm
    syncScheduled,   \* scheduleSync has set the interval timer
    quotes,          \* the global quotes array
    storage,         \* localStorage item 'quotes'
    lastFilter,      \* localStorage item 'lastFilter'
    categoryFilter,  \* the select element: its option values and its value
    filtered,        \* the list the last step's filterQuotes gave showRandomQuote
    message,         \* the message the last step's showMessage showed
    addTimers,       \* pending setTimeout callbacks of addQuote, oldest first
    posts,           \* POST requests of postQuoteToServer in flight
    fetching,        \* sync cycles suspended at await fetch(...)
    decoding,        \* sync cycles suspended at await response.json()
    last,            \* history: the operation of the last step
    savedFrom,       \* history: the collection the last saveQuotes serialized
    batch,           \* history: the response body the last step merged, if it merged
                     \* one, and whether the step before had merged the same body
    duringFlight     \* history: records appended during a fetch that is not yet over

vars == <<iteration, loaded, syncScheduled, quotes, storage, lastFilter,
          categoryFilter, filtered, message, addTimers, posts, fetching,
          decoding, last, savedFrom, batch, duringFlight>>

Category(q) == GetProp(q, S("category"))
Text(q) == GetProp(q, S("text"))

\* the categories of the records up to the first one that is not a string
RECURSIVE StringCategories(_)
StringCategories(q) ==
    IF q = <<>> THEN {}
    ELSE IF Category(Head(q)).k # "str" THEN {}
    ELSE {Category(Head(q)).s} \cup StringCategories(Tail(q))

\* populateCategories: quote.category throws on a null element before the
\* select is touched; category.charAt throws on the first category that is
\* not a string, after the options before it were appended and before
\* lastFilter is restored.  Appending the first option selects it; setting
\* the value to a string no option has leaves nothing selected.
PopulateCategories(q, cf, lf) ==
    IF \E i \in 1..Len(q) : AccessThrows(q[i])
    THEN [threw |-> TRUE, cf |-> cf]
    ELSE LET options == {All} \cup StringCategories(q)
             threw == \E i \in 1..Len(q) : Category(q[i]).k # "str"
             value == IF ~threw /\ lf.present /\ lf.text # <<>>
                      THEN (IF lf.text \in options THEN lf.text ELSE <<>>)
                      ELSE All
         IN  [threw |-> threw, cf |-> [options |-> options, value |-> value]]

RECURSIVE Select(_, _)
Select(q, s) ==
    IF q = <<>> THEN <<>>
    ELSE (IF Category(Head(q)) = Str(s) THEN <<Head(q)>> ELSE <<>>)
         \o Select(Tail(q), s)

\* line 172: the list filterQuotes selects for the selected category
FilteredQuotes(q, s) == IF s = All THEN q ELSE Select(q, s)

NotFiltered == [called |-> FALSE, list |-> <<>>]

\* filterQuotes: lastFilter is written first; quote.category throws on a
\* null element when the list is filtered
FilterQuotes(q, cf) ==
    LET threw == cf.value # All /\ \E i \in 1..Len(q) : AccessThrows(q[i])
    IN  [threw |-> threw,
         lf |-> Stored(cf.value),
         filtered |-> IF threw THEN NotFiltered
                      ELSE [called |-> TRUE, list |-> FilteredQuotes(q, cf.value)]]

\* populateCategories(); filterQuotes(); as the handlers call them in a row
Refresh(q, cf, lf) ==
    LET pc == PopulateCategories(q, cf, lf)
        fq == FilterQuotes(q, pc.cf)
    IN  IF pc.threw
        THEN [threw |-> TRUE, cf |-> pc.cf, lf |-> lf, filtered |-> NotFiltered]
        ELSE [threw |-> fq.threw, cf |-> pc.cf, lf |-> fq.lf, filtered |-> fq.filtered]

\* saveQuotes: the value written under 'quotes'
SaveQuotes(q) == Stored(JSONstringifyArray(q))


\* ---------------------------------------------------------------- inputs
\* what the user types into newQuoteText and newQuoteCategory
TextInputs == { <<" ">>, <<"A">> }
CategoryInputs == { <<>>, <<"all", "\t">> }

\* the options the user picks in the select
FilterInputs == { S("all"), S("Life") }

LB == Tok("[")
RB == Tok("]")
LC == Tok("{")
RC == Tok("}")
CM == Tok(",")
CL == Tok(":")
Member(key, val) == <<StrTok(S(key)), CL, StrTok(val)>>

\* [{"text":"A","category":"B"}]
FileAB == <<LB, LC>> \o Member("text", S("A")) \o <<CM>> \o Member("category", S("B"))
          \o <<RC, RB>>
\* [{"category":"Life","text":"The journey ..."}]
FileSwapped == <<LB, LC>> \o Member("category", S("Life")) \o <<CM>>
           \o Member("text", S("The journey of a thousand miles begins with a single step."))
           \o <<RC, RB>>
\* [{"text":"","category":"all"},{"text":"A"}]
FileTwo == <<LB, LC>> \o Member("text", <<>>) \o <<CM>> \o Member("category", S("all"))
           \o <<RC, CM, LC>> \o Member("text", S("A")) \o <<RC, RB>>
\* [{"text":""}]
FileNoCategory == <<LB, LC>> \o Member("text", <<>>) \o <<RC, RB>>
\* []
FileEmpty == <<LB, RB>>
\* {"text":"A","category":"B"}
FileObject == <<LC>> \o Member("text", S("A")) \o <<CM>> \o Member("category", S("B"))
              \o <<RC>>
\* [{"text":"A"
FileTruncated == <<LB, LC>> \o Member("text", S("A"))

Files == {FileEmpty, FileAB, FileSwapped, FileNoCategory, FileTwo, FileObject,
          FileTruncated}

\* [{"title":"t1","id":1},{"title":"t1","id":2}]
RespDup == <<LB, LC>> \o Member("title", S("t1"))
           \o <<CM, StrTok(S("id")), CL, NumTok(S("1")), RC, CM, LC>>
           \o Member("title", S("t1"))
           \o <<CM, StrTok(S("id")), CL, NumTok(S("2")), RC, RB>>
\* [{"id":3}]
RespNoTitle == <<LB, LC, StrTok(S("id")), CL, NumTok(S("3")), RC, RB>>
\* {}
RespObject == <<LC, RC>>
\* []
RespEmpty == <<LB, RB>>
\* [null]
RespNull == <<LB, Tok("null"), RB>>
\* [{
RespTruncated == <<LB, LC>>

Responses == {RespDup, RespNoTitle, RespEmpty, RespObject, RespNull, RespTruncated}

\* ---------------------------------------------------------------- actions
\* the last step merged no response
NoBatch == [body |-> <<>>, again |-> FALSE]

Init ==
    /\ iteration \in {"sync", "filter"}
    /\ loaded = FALSE
    /\ syncScheduled = FALSE
    /\ quotes = Seed
    /\ storage = Absent
    /\ lastFilter = Absent
    /\ categoryFilter = [options |-> {}, value |-> <<>>]
    /\ filtered = NotFiltered
    /\ message = NoMessage
    /\ addTimers = <<>>
    /\ posts = 0
    /\ fetching = 0
    /\ decoding = 0
    /\ last = "init"
    /\ batch = NoBatch
    /\ savedFrom = [present |-> FALSE, q |-> <<>>]
    /\ duringFlight = {}

InFlight == fetching + decoding > 0

Busy == fetching + decoding + Len(addTimers) + posts

\* no sync cycle is in flight and no timer of addQuote is pending
Quiescent == fetching + decoding = 0 /\ addTimers = <<>>

\* duringFlight after a step that appended the records new: the records
\* appended while a fetch was in flight, kept until the step after the page
\* is quiescent again
Racing(new) ==
    IF Quiescent THEN {}
    ELSE duringFlight \cup (IF InFlight THEN new ELSE {})

Saved(q) == [present |-> TRUE, q |-> q]


LoadQuotesAppend(st, q) ==
    IF st.present /\ st.text # <<>> THEN q \o JSONparse(st.text).items ELSE q

\* loadQuotes: the collection it leaves in the global; the stored value is
\* one that saveQuotes wrote
LoadQuotes(st, q) ==
    IF st.present /\ st.text # <<>> THEN JSONparse(st.text).items ELSE q

\* window.onload: loadQuotes, createAddQuoteForm, populateCategories,
\* filterQuotes and, in the iteration with sync, scheduleSync; an exception
\* of populateCategories or filterQuotes ends the handler
OnLoad ==
    /\ ~loaded
    /\ LET q == LoadQuotes(storage, quotes)
           ui == Refresh(q, categoryFilter, lastFilter)
       IN  /\ quotes' = q
           /\ storage' = IF storage.present /\ storage.text # <<>>
                         THEN storage ELSE SaveQuotes(quotes)
           /\ savedFrom' = IF storage.present /\ storage.text # <<>>
                           THEN savedFrom ELSE Saved(quotes)
           /\ categoryFilter' = ui.cf
           /\ lastFilter' = ui.lf
           /\ filtered' = ui.filtered
           /\ syncScheduled' = (iteration = "sync" /\ ~ui.threw)
    /\ loaded' = TRUE
    /\ message' = NoMessage
    /\ last' = "load"
    /\ batch' = NoBatch
    /\ UNCHANGED <<iteration, addTimers, posts, fetching, decoding>>
    /\ duringFlight' = Racing({})

\* the page is loaded again: the script starts over with the seed, timers
\* and requests of the old page are gone, localStorage stays
Reload ==
    /\ loaded
    /\ loaded' = FALSE
    /\ syncScheduled' = FALSE
    /\ quotes' = Seed
    /\ categoryFilter' = [options |-> {}, value |-> <<>>]
    /\ filtered' = NotFiltered
    /\ message' = NoMessage
    /\ addTimers' = <<>>
    /\ posts' = 0
    /\ fetching' = 0
    /\ decoding' = 0
    /\ duringFlight' = {}
    /\ last' = "reload"
    /\ batch' = NoBatch
    /\ UNCHANGED <<iteration, storage, lastFilter, savedFrom>>

NewQuoteSwapped(text, category) == Quote(category, text)

\* lines 256-259: the record addQuote builds
NewQuote(text, category) == Quote(text, category)

IsValidLoose(text, category) == text # <<>> \/ category # <<>>

\* line 255: text && category
IsValid(text, category) == text # <<>> /\ category # <<>>

\* click on addQuote in script.js: addQuote() appends and sets the 500 ms
\* timer, or shows the validation message
AddQuoteSync(rawText, rawCategory) ==
    LET text == Trim(rawText)
        category == Trim(rawCategory)
    IN  /\ iteration = "sync"
        /\ IF IsValid(text, category)
           THEN /\ Len(quotes) < MaxQuotes
                /\ Busy < MaxBusy
                /\ quotes' = Append(quotes, NewQuote(text, category))
                /\ addTimers' = Append(addTimers, NewQuote(text, category))
                /\ duringFlight' = Racing({NewQuote(text, category)})
                /\ message' = NoMessage
           ELSE /\ message' = MsgValidation
                /\ UNCHANGED <<quotes, addTimers>>
                /\ duringFlight' = Racing({})
        /\ filtered' = NotFiltered
        /\ UNCHANGED <<storage, savedFrom, categoryFilter, lastFilter>>

\* click on addQuote in the iteration with filtering: addQuote(); saveQuotes();
\* addQuote refreshes the select and the display itself, and an exception
\* there ends the click handler before saveQuotes
AddQuoteFilter(rawText, rawCategory) ==
    LET text == Trim(rawText)
        category == Trim(rawCategory)
        q == Append(quotes, NewQuote(text, category))
        ui == Refresh(q, categoryFilter, lastFilter)
    IN  /\ iteration = "filter"
        /\ IF IsValid(text, category)
           THEN /\ Len(quotes) < MaxQuotes
                /\ quotes' = q
                /\ message' = MsgAdded
                /\ categoryFilter' = ui.cf
                /\ lastFilter' = ui.lf
                /\ filtered' = ui.filtered
                /\ storage' = IF ui.threw THEN storage ELSE SaveQuotes(q)
                /\ savedFrom' = IF ui.threw THEN savedFrom ELSE Saved(q)
           ELSE /\ message' = MsgValidation
                /\ storage' = SaveQuotes(quotes)
                /\ savedFrom' = Saved(quotes)
                /\ filtered' = NotFiltered
                /\ UNCHANGED <<quotes, categoryFilter, lastFilter>>
        /\ UNCHANGED <<addTimers>>
        /\ duringFlight' = Racing({})

AddClick(rawText, rawCategory) ==
    /\ loaded
    /\ \/ AddQuoteSync(rawText, rawCategory)
       \/ AddQuoteFilter(rawText, rawCategory)
    /\ last' = "add"
    /\ batch' = NoBatch
    /\ UNCHANGED <<iteration, loaded, syncScheduled, posts, fetching, decoding>>

\* the 500 ms timer of addQuote: postQuoteToServer starts the POST, then
\* saveQuotes, the message and the refresh of select and display
AddTimerFire ==
    /\ addTimers # <<>>
    /\ LET ui == Refresh(quotes, categoryFilter, lastFilter)
       IN  /\ categoryFilter' = ui.cf
           /\ lastFilter' = ui.lf
           /\ filtered' = ui.filtered
    /\ addTimers' = Tail(addTimers)
    /\ posts' = posts + 1
    /\ storage' = SaveQuotes(quotes)
    /\ savedFrom' = Saved(quotes)
    /\ message' = MsgAdded
    /\ last' = "addTimer"
    /\ batch' = NoBatch
    /\ UNCHANGED <<iteration, loaded, syncScheduled, quotes, fetching, decoding>>
    /\ duringFlight' = Racing({})

\* postQuoteToServer after its await: only a message
PostQuoteToServer(outcome) ==
    /\ posts > 0
    /\ posts' = posts - 1
    /\ message' = CASE outcome = "ok" -> MsgPosted
                    [] outcome = "notok" -> MsgPostError
                    [] OTHER -> MsgPostNetwork
    /\ filtered' = NotFiltered
    /\ last' = "post"
    /\ batch' = NoBatch
    /\ UNCHANGED <<iteration, loaded, syncScheduled, quotes, storage, lastFilter,
                   categoryFilter, addTimers, fetching, decoding, savedFrom>>
    /\ duringFlight' = Racing({})

PushFront(q, items) == items \o q

\* line 68: quotes.push(...importedQuotes)
Push(q, items) == q \o items

\* fileReader.onload of importFromJsonFile with the text of the chosen file
ImportFromJsonFile(file) ==
    /\ loaded
    /\ LET r == JSONparse(file)
           q == Push(quotes, r.items)
           ui == Refresh(q, categoryFilter, lastFilter)
       IN  IF r.ok /\ r.isArray
           THEN /\ Len(q) <= MaxQuotes
                /\ quotes' = q
                /\ storage' = SaveQuotes(q)
                /\ savedFrom' = Saved(q)
                /\ categoryFilter' = ui.cf
                /\ lastFilter' = ui.lf
                /\ filtered' = ui.filtered
                /\ message' = IF ui.threw THEN MsgParseError ELSE MsgImported
                /\ duringFlight' = Racing(Range(r.items))
           ELSE /\ message' = IF r.ok THEN MsgNotArray ELSE MsgParseError
                /\ filtered' = NotFiltered
                /\ UNCHANGED <<quotes, storage, savedFrom, categoryFilter,
                               lastFilter>>
                /\ duringFlight' = Racing({})
    /\ last' = "import"
    /\ batch' = NoBatch
    /\ UNCHANGED <<iteration, loaded, syncScheduled, addTimers, posts, fetching,
                   decoding>>

\* the user picks an option of the select: the change event runs filterQuotes
FilterChange(s) ==
    /\ loaded
    /\ s \in categoryFilter.options
    /\ LET cf == [categoryFilter EXCEPT !.value = s]
           fq == FilterQuotes(quotes, cf)
       IN  /\ categoryFilter' = cf
           /\ lastFilter' = fq.lf
           /\ filtered' = fq.filtered
    /\ message' = NoMessage
    /\ last' = "filter"
    /\ batch' = NoBatch
    /\ UNCHANGED <<iteration, loaded, syncScheduled, quotes, storage, addTimers,
                   posts, fetching, decoding, savedFrom>>
    /\ duringFlight' = Racing({})

\* click on newQuote: filterQuotes with the value the select has
NewQuoteClick ==
    /\ loaded
    /\ LET fq == FilterQuotes(quotes, categoryFilter)
       IN  /\ lastFilter' = fq.lf
           /\ filtered' = fq.filtered
    /\ message' = NoMessage
    /\ last' = "filter"
    /\ batch' = NoBatch
    /\ UNCHANGED <<iteration, loaded, syncScheduled, quotes, storage,
                   categoryFilter, addTimers, posts, fetching, decoding, savedFrom>>
    /\ duringFlight' = Racing({})

\* the interval timer of scheduleSync fires: syncQuotes starts a cycle, which
\* runs up to await fetch(...)
SyncQuotes ==
    /\ syncScheduled
    /\ Busy < MaxBusy
    /\ fetching' = fetching + 1
    /\ message' = NoMessage
    /\ filtered' = NotFiltered
    /\ last' = "syncStart"
    /\ batch' = NoBatch
    /\ UNCHANGED <<iteration, loaded, syncScheduled, quotes, storage, lastFilter,
                   categoryFilter, addTimers, posts, decoding, savedFrom>>
    /\ duringFlight' = Racing({})

\* fetch rejects: the catch block shows the message
FetchReject ==
    /\ fetching > 0
    /\ fetching' = fetching - 1
    /\ message' = MsgSyncError
    /\ filtered' = NotFiltered
    /\ last' = "fetchReject"
    /\ batch' = NoBatch
    /\ UNCHANGED <<iteration, loaded, syncScheduled, quotes, storage, lastFilter,
                   categoryFilter, addTimers, posts, decoding, savedFrom>>
    /\ duringFlight' = Racing({})

\* fetch resolves: the cycle goes on to await response.json()
FetchResolve ==
    /\ fetching > 0
    /\ fetching' = fetching - 1
    /\ decoding' = decoding + 1
    /\ message' = NoMessage
    /\ filtered' = NotFiltered
    /\ last' = "fetchResolve"
    /\ batch' = NoBatch
    /\ UNCHANGED <<iteration, loaded, syncScheduled, quotes, storage, lastFilter,
                   categoryFilter, addTimers, posts, savedFrom>>
    /\ duringFlight' = Racing({})

\* lines 97-100: a post in the quotes format
ServerQuote(post) ==
    Obj(<<Prop(S("text"), GetProp(post, S("title"))), Prop(S("category"), Str(Server))>>)

RECURSIVE ServerQuotes(_)
ServerQuotes(serverPosts) ==
    IF serverPosts = <<>> THEN <<>>
    ELSE <<ServerQuote(Head(serverPosts))>> \o ServerQuotes(Tail(serverPosts))

RECURSIVE Stringified(_)
Stringified(q) ==
    IF q = <<>> THEN <<>> ELSE <<JSONstringify(Head(q))>> \o Stringified(Tail(q))

\* Array.from(new Set(...)): the first occurrences in order
RECURSIVE SetOrder(_, _)
SetOrder(strs, seen) ==
    IF strs = <<>> THEN <<>>
    ELSE IF Head(strs) \in seen THEN SetOrder(Tail(strs), seen)
    ELSE <<Head(strs)>> \o SetOrder(Tail(strs), seen \cup {Head(strs)})

RECURSIVE Parsed(_)
Parsed(strs) ==
    IF strs = <<>> THEN <<>>
    ELSE <<JSONparse(Head(strs)).val>> \o Parsed(Tail(strs))

MergeServerOnly(q, serverQuotes) == Parsed(SetOrder(Stringified(serverQuotes), {}))

MergeNoDedup(q, serverQuotes) == q \o serverQuotes

MergeRemoteFirst(q, serverQuotes) ==
    Parsed(SetOrder(Stringified(serverQuotes \o q), {}))

\* lines 104-109: mergedQuotes and uniqueQuotes
UniqueQuotes(q, serverQuotes) ==
    Parsed(SetOrder(Stringified(q \o serverQuotes), {}))

\* serverPosts.map(post => ... post.title ...) throws when the response is
\* not an array or holds null
MapThrows(r) == ~r.isArray \/ \E i \in 1..Len(r.items) : AccessThrows(r.items[i])

\* response.json() settles with the body: the rest of fetchQuotesFromServer
FetchQuotesFromServer(body) ==
    /\ decoding > 0
    /\ decoding' = decoding - 1
    /\ LET r == JSONparse(body)
           q == UniqueQuotes(quotes, ServerQuotes(r.items))
           ui == Refresh(q, categoryFilter, lastFilter)
       IN  IF r.ok /\ ~MapThrows(r)
           THEN /\ Len(q) <= MaxQuotes
                /\ quotes' = q
                /\ storage' = SaveQuotes(q)
                /\ savedFrom' = Saved(q)
                /\ categoryFilter' = ui.cf
                /\ lastFilter' = ui.lf
                /\ filtered' = ui.filtered
                /\ message' = IF ui.threw THEN MsgSyncError ELSE MsgSynced
           ELSE /\ message' = MsgSyncError
                /\ filtered' = NotFiltered
                /\ UNCHANGED <<quotes, storage, savedFrom, categoryFilter,
                               lastFilter>>
    /\ last' = "sync"
    /\ batch' = IF message' = MsgSynced
                THEN [body |-> body, again |-> (last = "sync" /\ batch.body = body)]
                ELSE NoBatch
    /\ UNCHANGED <<iteration, loaded, syncScheduled, addTimers, posts, fetching>>
    /\ duringFlight' = Racing({})

Next ==
    \/ OnLoad
    \/ Reload
    \/ \E t \in TextInputs, c \in CategoryInputs : AddClick(t, c)
    \/ AddTimerFire
    \/ \E o \in {"ok", "notok", "reject"} : PostQuoteToServer(o)
    \/ \E f \in Files : ImportFromJsonFile(f)
    \/ \E s \in FilterInputs : FilterChange(s)
    \/ NewQuoteClick
    \/ SyncQuotes
    \/ FetchReject
    \/ FetchResolve
    \/ \E b \in Responses : FetchQuotesFromServer(b)

Spec == Init /\ [][Next]_vars


\* ---------------------------------------------------------------- claims
\* the text+category pair of a record
Pair(q) == <<Text(q), Category(q)>>

Pairs(q) == {Pair(q[i]) : i \in 1..Len(q)}

\* a string of the page's input fields holds nothing but whitespace
AllSpace(s) == \A i \in 1..Len(s) : IsSpace(s[i])

IsNonEmptyString(v) == v.k = "str" /\ v.s # <<>>

\* the collection the stored value deserializes to
StoredItems == JSONparse(storage.text).items

\* C1: a successful sync cycle leaves a collection whose records, compared by
\* their text+category pair, are exactly those of the local collection L and
\* the remote batch R: as many records as L \cup R has pairs, none that is in
\* neither, none missing.
C1_MergeIsUnion ==
    [][\A b \in Responses :
         (FetchQuotesFromServer(b) /\ message' = MsgSynced)
         => LET U == Pairs(quotes) \cup Pairs(ServerQuotes(JSONparse(b).items))
            IN  /\ Len(quotes') = Cardinality(U)
                /\ Pairs(quotes') = U]_vars

\* C2 as stated: a valid add appends one record whose text and category are
\* the entered input exactly, and leaves the earlier records in place.
C2_AddAppendsInput ==
    [][\A t \in TextInputs, c \in CategoryInputs :
         (last' = "add" /\ ~AllSpace(t) /\ ~AllSpace(c) /\ AddClick(t, c))
         => quotes' = Append(quotes, Quote(t, c))]_vars

\* C2 as amended: a valid add makes the collection one longer, the new record
\* is the last one, its text and category are the entered input with leading
\* and trailing whitespace removed (text A and category all for the inputs
\* "A" and "all<tab>"), and the earlier records keep their values and
\* positions.
C2_AddAppendsTrimmed ==
    [][\A t \in TextInputs, c \in CategoryInputs :
         (last' = "add" /\ ~AllSpace(t) /\ ~AllSpace(c) /\ AddClick(t, c))
         => /\ Len(quotes') = Len(quotes) + 1
            /\ SubSeq(quotes', 1, Len(quotes)) = quotes
            /\ quotes'[Len(quotes')].p
                 = <<Prop(S("text"), Str(Trim(t))), Prop(S("category"), Str(Trim(c)))>>
            /\ Text(quotes'[Len(quotes')]) = Str(S("A"))
            /\ Category(quotes'[Len(quotes')]) = Str(S("all"))]_vars

\* a valid add whose category was entered with trailing whitespace has acted
C2_Witness ==
    /\ last = "add"
    /\ Len(quotes) = Len(Seed) + 1
    /\ quotes[Len(quotes)] = Quote(S("A"), S("all"))
    /\ SubSeq(quotes, 1, Len(Seed)) = Seed

\* C3: an add whose text or category is empty or only whitespace leaves the
\* collection unchanged, starts no POST (no timer set, no request begun) and
\* shows the validation message.
C3_InvalidAddRejected ==
    [][\A t \in TextInputs, c \in CategoryInputs :
         (last' = "add" /\ (AllSpace(t) \/ AllSpace(c)) /\ AddClick(t, c))
         => /\ quotes' = quotes
            /\ addTimers' = addTimers
            /\ posts' = posts
            /\ message' = MsgValidation]_vars

\* an add was rejected
C3_Witness ==
    /\ last = "add"
    /\ message = MsgValidation
    /\ Len(quotes) > Len(Seed)

\* C4: loadQuotes after saveQuotes gives the collection that was saved: same
\* length, same order, same records.
C4_SaveLoadRoundTrip ==
    (last = "load" /\ savedFrom.present) => quotes = savedFrom.q

\* loadQuotes has read back a collection with an imported record whose keys
\* are in the other order
C4_Witness ==
    /\ last = "load"
    /\ savedFrom.present
    /\ Len(quotes) > Len(Seed)
    /\ \E i \in 1..Len(quotes) :
         quotes[i].k = "obj" /\ quotes[i].p # <<>> /\ quotes[i].p[1].key = S("category")

\* C5: every record of the collection has a non-empty text and a non-empty
\* category.
C5_RecordsNonEmpty ==
    \A i \in 1..Len(quotes) :
        IsNonEmptyString(Text(quotes[i])) /\ IsNonEmptyString(Category(quotes[i]))


\* C6 as stated: when records were appended while a fetch was in flight, then
\* once the cycle has merged and the cycles and the timers of addQuote are
\* over, one of those records is missing from the collection or from the
\* stored value.
C6_UpdateLost ==
    (loaded /\ Quiescent /\ duringFlight # {} /\ last = "sync" /\ message = MsgSynced)
    => \E r \in duringFlight : r \notin Range(quotes) \/ r \notin Range(StoredItems)

\* C6 as amended: no update is lost.  The continuation of a sync cycle reads
\* the collection after its awaits, so every record added or imported while
\* a fetch was in flight is in the collection and in the stored value once
\* the cycles and the timers of addQuote are over.
C6_NoUpdateLost ==
    (loaded /\ Quiescent)
    => \A r \in duringFlight : r \in Range(quotes) /\ r \in Range(StoredItems)

\* a record was added during a fetch, and the cycle has merged and saved
C6_Witness ==
    /\ loaded
    /\ Quiescent
    /\ last = "sync"
    /\ message = MsgSynced
    /\ Quote(S("A"), S("all")) \in duringFlight

\* C7: an import or a sync cycle that ends in its error message leaves the
\* collection and the stored value as they were before it.
C7_ErrorLeavesState ==
    [][(/\ last' \in {"import", "sync", "fetchReject"}
        /\ message' \in {MsgParseError, MsgNotArray, MsgSyncError})
       => (quotes' = quotes /\ storage' = storage)]_vars

\* C8: once loadQuotes has run, the stored value is the serialization of the
\* collection in memory.
C8_StorageIsCurrent ==
    loaded => (storage.present /\ storage.text = JSONstringifyArray(quotes))

\* the elements of each file that is a JSON array, written out
ExpectedItems(f) ==
    CASE f = FileEmpty -> <<>>
      [] f = FileAB -> <<Quote(S("A"), S("B"))>>
      [] f = FileSwapped ->
           <<Obj(<<Prop(S("category"), Str(S("Life"))),
                   Prop(S("text"),
                        Str(S("The journey of a thousand miles begins with a single step.")))>>)>>
      [] f = FileNoCategory -> <<Obj(<<Prop(S("text"), Str(<<>>))>>)>>
      [] f = FileTwo -> <<Quote(<<>>, S("all")), Obj(<<Prop(S("text"), Str(S("A")))>>)>>

C10_FilterExact ==
    filtered.called
    => /\ categoryFilter.value = All => filtered.list = quotes
       /\ categoryFilter.value # All
            => filtered.list = Select(quotes, categoryFilter.value)
       /\ (\E i \in 1..Len(quotes) : Category(quotes[i]) = Str(All))
            => filtered.list = Select(quotes, categoryFilter.value)

\* a member that has a value
HasValue(m) == m.val.k # "undef"

\* structural equality of two records: the same members with the same values
\* in the same order, a member whose value is undefined counting as absent
Same(a, b) ==
    IF a.k = "obj" /\ b.k = "obj"
    THEN SelectSeq(a.p, HasValue) = SelectSeq(b.p, HasValue)
    ELSE a = b

\* the first occurrences of seq, in order, after the records of kept
RECURSIVE FirstOccurrences(_, _)
FirstOccurrences(seq, kept) ==
    IF seq = <<>> THEN kept
    ELSE FirstOccurrences(Tail(seq),
                          IF \E i \in 1..Len(kept) : Same(kept[i], Head(seq))
                          THEN kept ELSE Append(kept, Head(seq)))

C12_LoadAtStartup ==
    [][(last' = "load" /\ OnLoad)
       => /\ ~storage.present
               => /\ quotes' = Seed
                  /\ Len(quotes') = 4
                  /\ storage' = Stored(JSONstringifyArray(Seed))
          /\ storage.present
               => /\ quotes' = JSONparse(storage.text).items
                  /\ storage' = storage
                  /\ \A i \in 1..Len(Seed) :
                        Seed[i] \notin Range(JSONparse(storage.text).items)
                        => Seed[i] \notin Range(quotes')
          /\ storage'.present
          /\ storage'.text = JSONstringifyArray(quotes')
          /\ JSONparse(storage'.text).items = quotes']_vars

\* the page was loaded with a stored collection of five records: the seed
\* in memory was replaced by it
C12_Witness ==
    /\ last = "load"
    /\ storage.present
    /\ quotes = Seed \o <<Quote(S("A"), S("B"))>>
    /\ StoredItems = quotes

\* C13: no operation removes a record by value.  While the page is loaded,
\* every step (add and its delayed save, import, the steps of sync cycles,
\* their failures) leaves each text+category pair of the collection in the
\* collection, and every save leaves each pair of the stored collection in
\* the stored collection.
C13_NoRemoval ==
    [][/\ (loaded /\ loaded') => Pairs(quotes) \subseteq Pairs(quotes')
       /\ (storage.present /\ storage' # storage)
            => Pairs(StoredItems) \subseteq Pairs(JSONparse(storage'.text).items)]_vars

\* a cycle has merged a collection that held two records of the same pair,
\* and both are still there
C13_Witness ==
    /\ last = "sync"
    /\ message = MsgSynced
    /\ quotes = Seed \o ExpectedItems(FileSwapped)
    /\ Pairs(StoredItems) = Pairs(Seed)

\* C14: sync is idempotent and overlap-safe for a fixed remote batch.  A
\* successful cycle leaves a collection that a further merge of the same
\* batch leaves as it is, stored value included; and when two cycles were in
\* flight at once and their continuations run one after the other with the
\* same batch, the second changes neither the collection nor the stored
\* value, so both are those of a single cycle.
C14_SyncIdempotent ==
    [][\A b \in Responses :
         (last' = "sync" /\ FetchQuotesFromServer(b) /\ message' = MsgSynced)
         => LET R == ServerQuotes(JSONparse(b).items)
            IN  /\ UniqueQuotes(quotes', R) = quotes'
                /\ SaveQuotes(UniqueQuotes(quotes', R)) = storage'
                /\ (last = "sync" /\ batch.body = b)
                     => /\ quotes' = quotes
                        /\ storage' = storage]_vars

\* two cycles were in flight at once and both continuations have merged the
\* batch of two equal posts: one server record, as after a single cycle
C14_Witness ==
    /\ last = "sync"
    /\ batch.again
    /\ batch.body = RespDup
    /\ quotes = Seed \o <<Quote(S("t1"), Server)>>
    /\ storage = SaveQuotes(quotes)

====
